---------------------------- MODULE Spec2Model ----------------------------
(***************************************************************************)
(* A model of src/main.py: the webhook handler of the GitHub diary app,    *)
(* its DiaryService (save_or_append, save_conversation), the GitHubClient  *)
(* (get_file, put_file) and the PathGenerator, run against a remote        *)
(* content store with read-modify-write (get-sha, put-with-sha) semantics. *)
(*                                                                         *)
(* Text is modelled as a sequence: a path is a sequence of one-character   *)
(* strings, a document content is a sequence of chunks (a header, an       *)
(* entry, a newline, a JSON dump), and + on Python strings is \o.          *)
(***************************************************************************)
EXTENDS Naturals, Sequences, FiniteSets

VARIABLES
    config,     \* Config.from_env(): github_token and github_repo
    store,      \* the remote repository: path -> document (content, sha)
    pc,         \* per handling: the await point the coroutine is at
    req,        \* per handling: the request (endpoint, body, resolved date)
    existing,   \* per handling: save_or_append's local `existing`
    ret,        \* per handling: what the save_or_append calls returned
    calls,      \* per handling: the remote calls issued so far, in order
    resp,       \* per handling: the HTTP response
    nreq,       \* requests received so far
    derived     \* paths derived by PathGenerator (the path specification)

vars == <<config, store, pc, req, existing, ret, calls, resp, nreq, derived>>

-----------------------------------------------------------------------------
(* Bounds *)

\* requests received in one run
MaxRequests == 2
\* paths derived in one run of the path specification
MaxDerived == 3

\* the handlings in flight at once: two tasks of the event loop
Handlers == {1, 2}

-----------------------------------------------------------------------------
(* Strings *)

\* str.split(sep): the pieces of s between the occurrences of sep
RECURSIVE Split(_, _)
Split(s, sep) ==
    IF \A i \in 1..Len(s) : s[i] # sep
    THEN <<s>>
    ELSE LET i == CHOOSE j \in 1..Len(s) :
                      s[j] = sep /\ \A k \in 1..(j - 1) : s[k] # sep
         IN  <<SubSeq(s, 1, i - 1)>> \o Split(SubSeq(s, i + 1, Len(s)), sep)

IsPrefix(a, b) == Len(a) <= Len(b) /\ SubSeq(b, 1, Len(a)) = a

NoPath == <<>>

-----------------------------------------------------------------------------
(* PathGenerator *)

\* the dates DateTimeHelper.format_date produces ("%Y-%m-%d")
Date1 == <<"2","0","2","5","-","0","1","-","1","5">>
Date2 == <<"2","0","2","5","-","1","1","-","0","5">>
Date3 == <<"2","0","2","5","-","0","1","-","0","5">>
\* a date of GET /diary/{date} that is not YYYY-MM-DD
BadDate == <<"2","0","2","5","-","0","1">>

\* conversation ids
NoId == <<>>
IdA == <<"a">>
IdB == <<"a","b">>
IdC == <<"a","/","r","a","w","/","b">>

date_parts(date) == Split(date, "-")

\* `year, month, day = cls._date_parts(date)` raises unless there are 3 parts
DateUnpacks(date) == Len(date_parts(date)) = 3

diary(date) ==
    LET p == date_parts(date)
    IN  <<"d","i","a","r","y","/">> \o p[1] \o <<"/">> \o p[2] \o <<"/">> \o p[3]
            \o <<".","m","d">>

\* mutant: the transcript path without its suffix
transcript_mut(date) == diary(date)

transcript(date) ==
    LET p == date_parts(date)
    IN  <<"d","i","a","r","y","/">> \o p[1] \o <<"/">> \o p[2] \o <<"/">> \o p[3]
            \o <<"_","t","r","a","n","s","c","r","i","p","t",".","m","d">>

raw_data(date, conversation_id) ==
    LET p == date_parts(date)
    IN  <<"d","i","a","r","y","/">> \o p[1] \o <<"/">> \o p[2] \o <<"/">> \o p[3]
            \o <<"/","r","a","w","/">> \o conversation_id \o <<".","j","s","o","n">>


-----------------------------------------------------------------------------
(* Config *)

\* Config.is_configured: bool(self.github_token and self.github_repo)
\* mutant: `or` for `and`
is_configured_mut(c) == c.github_token # "" \/ c.github_repo # ""

is_configured(c) == c.github_token # "" /\ c.github_repo # ""

Configs == [github_token : {"", "token"}, github_repo : {"", "owner/repo"}]

-----------------------------------------------------------------------------
(* Conversation records and ContentGenerator *)

\* the date and ids of the webhook records of a run
Dates == {Date1}
ConvIds == {NoId, IdA}
NoDate == <<>>

\* a conversation: its id, the number of its transcript_segments, and v, which
\* stands for the rest of the record (title, overview, created_at, ...)
Convs == [id : ConvIds, segs : {0, 1}, v : {1}]

\* `conversation = body if isinstance(body, dict) else {}`: the empty record
EmptyConv == [id |-> NoId, segs |-> 0, v |-> 0]

\* the record of id IdA as an earlier delivery sent it: same id, other fields
EarlierConv == [id |-> IdA, segs |-> 1, v |-> 0]

\* request bodies: not JSON at all, JSON that is no object, a JSON object
Bodies == {[kind |-> "malformed", conv |-> EmptyConv],
           [kind |-> "nondict", conv |-> EmptyConv]}
          \cup {[kind |-> "dict", conv |-> c] : c \in Convs}

Chunk(k, d, c) == <<[k |-> k, d |-> d, c |-> c]>>

diary_header(date) == Chunk("diary_header", date, EmptyConv)
diary_entry(conversation) == Chunk("diary_entry", NoDate, conversation)
transcript_header(date) == Chunk("transcript_header", date, EmptyConv)
transcript_entry(conversation) == Chunk("transcript_entry", NoDate, conversation)
\* json.dumps(conversation, ensure_ascii=False, indent=2, default=str)
json_dumps(conversation) == Chunk("raw_json", NoDate, conversation)
Newline == Chunk("newline", NoDate, EmptyConv)

-----------------------------------------------------------------------------
(* The remote store and GitHubClient *)

NoSha == 0
\* Python's None for a fetched file, and an absent path of the store
None == [present |-> FALSE, content |-> <<>>, sha |-> NoSha]

AllPaths ==
    {diary(d) : d \in Dates} \cup {transcript(d) : d \in Dates}
        \cup {raw_data(d, i) : d \in Dates, i \in ConvIds \ {NoId}}

\* the store's answer to GET contents/{path}
StoreGetReply(doc) ==
    IF doc.present
    THEN [kind |-> "response", status |-> 200, content |-> doc.content, sha |-> doc.sha]
    ELSE [kind |-> "response", status |-> 404, content |-> <<>>, sha |-> NoSha]

\* a non-success answer other than 404, and httpx.HTTPError
FetchFaults ==
    {[kind |-> "response", status |-> 500, content |-> <<>>, sha |-> NoSha],
     [kind |-> "transport_error", status |-> 0, content |-> <<>>, sha |-> NoSha]}

\* mutant: only 404 and httpx.HTTPError give None; any other answer is decoded
get_file_mut(reply) ==
    IF reply.kind = "transport_error" THEN None
    ELSE IF reply.status = 404 THEN None
         ELSE [present |-> TRUE, content |-> reply.content, sha |-> reply.sha]

\* GitHubClient.get_file: the document on 200, None on 404, on any other
\* status and on httpx.HTTPError
get_file(reply) ==
    IF reply.kind = "transport_error" THEN None
    ELSE IF reply.status = 200
         THEN [present |-> TRUE, content |-> reply.content, sha |-> reply.sha]
         ELSE IF reply.status = 404 THEN None
         ELSE None

\* the store's rule for PUT contents/{path}: with a sha, the sha must be the
\* current one; without, the path must be empty
StoreAccepts(doc, sha) ==
    IF sha = NoSha THEN ~doc.present ELSE doc.present /\ doc.sha = sha

StoreStatus(doc, sha) ==
    IF StoreAccepts(doc, sha) THEN (IF doc.present THEN 200 ELSE 201)
    ELSE IF sha = NoSha THEN 422 ELSE 409

StoreWrite(doc, content, sha) ==
    IF StoreAccepts(doc, sha)
    THEN [present |-> TRUE, content |-> content, sha |-> doc.sha + 1]
    ELSE doc

\* GitHubClient.put_file builds `data`: the sha is sent only `if sha:`
put_data(path, content, message, sha) ==
    [op |-> "put", path |-> path, content |-> content, message |-> message,
     sha |-> IF sha # NoSha THEN sha ELSE NoSha]


\* one remote call in a handling's log. For a get: what get_file returned
\* (status 200 with the document, 0 for None), and missed: the store held a
\* document at the path and the fetch was answered by a fault. For a put: what was sent
\* and the status the store answered (0 when client.put raised), and stored:
\* the write changed the document at the path
LogGet(path, reply, was) ==
    [op |-> "get", path |-> path, content |-> get_file(reply).content, message |-> "",
     sha |-> get_file(reply).sha,
     status |-> IF get_file(reply).present THEN 200 ELSE 0,
     missed |-> was.present /\ reply \in FetchFaults, stored |-> FALSE]

LogPut(data, status, stored) ==
    [op |-> "put", path |-> data.path, content |-> data.content,
     message |-> data.message, sha |-> data.sha, status |-> status, missed |-> FALSE,
     stored |-> stored]

-----------------------------------------------------------------------------
(* DiaryService *)

\* save_or_append: the content submitted, the sha sent, the commit message and
\* the value returned, by branch of `if existing:`
\* mutant: the append without the "\n" between the old and the new content
new_content_mut(ex, content, header) ==
    IF ex.present THEN ex.content \o content ELSE header \o content

\* a save_or_append that always submits a fresh document
new_content_fresh(ex, content, header) == header \o content

new_content(ex, content, header) ==
    IF ex.present THEN ex.content \o Newline \o content ELSE header \o content

\* mutant: a revision token other than the one just fetched
put_sha_mut(ex) == IF ex.present THEN ex.sha + 1 ELSE NoSha

put_sha(ex) == IF ex.present THEN ex.sha ELSE NoSha

\* the commit message names the document and the branch
commit_message(kind, ex) ==
    IF kind = "diary"
    THEN (IF ex.present THEN "diary_update" ELSE "diary_new")
    ELSE (IF ex.present THEN "transcript_update" ELSE "transcript_new")

save_or_append_result(ex) == IF ex.present THEN "updated" ELSE "created"

\* save_conversation: the document a save_or_append call is for
DocKind(p) ==
    IF p \in {"diary_fetch", "diary_put"} THEN "diary" ELSE "transcript"

\* PathGenerator applied to the dates and ids of the requests, evaluated once
PathsOf ==
    [d \in Dates |-> [diary |-> diary(d), transcript |-> transcript(d),
                      raw |-> [i \in ConvIds \ {NoId} |-> raw_data(d, i)]]]

DocPath(kind, r) ==
    IF kind = "diary" THEN PathsOf[r.date].diary ELSE PathsOf[r.date].transcript

DocEntry(kind, r) ==
    IF kind = "diary" THEN diary_entry(r.conv) ELSE transcript_entry(r.conv)

DocHeader(kind, r) ==
    IF kind = "diary" THEN diary_header(r.date) ELSE transcript_header(r.date)

\* save_conversation: `if conversation_id:` after the transcript step
AfterTranscript(conv) == IF conv.id # NoId THEN "raw_put" ELSE "done"

\* save_conversation: `if transcript_segments:` after the diary step
AfterDiary(conv) ==
    IF conv.segs > 0 THEN "transcript_fetch" ELSE AfterTranscript(conv)

\* a save_or_append that starts over after its write
AfterPut_mut(kind, conv) ==
    IF kind = "diary" THEN "diary_fetch" ELSE "transcript_fetch"

\* save_conversation: the step after save_or_append returned
AfterPut(kind, conv) ==
    IF kind = "diary" THEN AfterDiary(conv) ELSE AfterTranscript(conv)

-----------------------------------------------------------------------------
(* Requests and responses *)

NoReq == [endpoint |-> "", body |-> "", conv |-> EmptyConv, date |-> NoDate]

NoResp ==
    [status |-> 0, detail |-> "", file_path |-> NoPath, transcript_path |-> NoPath,
     raw_data_path |-> NoPath, has_transcript |-> FALSE, content |-> <<>>]

NoRet == [diary |-> "", transcript |-> ""]

ErrorResp(status, detail) == [NoResp EXCEPT !.status = status, !.detail = detail]

\* save_conversation's result and the summary webhook returns from it
transcript_path(r) == IF r.conv.segs > 0 THEN PathsOf[r.date].transcript ELSE NoPath

raw_data_path(r) ==
    IF r.conv.id # NoId THEN PathsOf[r.date].raw[r.conv.id] ELSE NoPath

Summary(r) ==
    [status |-> 200,
     detail |-> IF transcript_path(r) # NoPath THEN "saved, transcript saved" ELSE "saved",
     file_path |-> PathsOf[r.date].diary,
     transcript_path |-> transcript_path(r),
     raw_data_path |-> raw_data_path(r),
     has_transcript |-> transcript_path(r) # NoPath,
     content |-> <<>>]

\* mutant: the JSON error is swallowed
BodyRejected_mut(body) == FALSE

\* webhook: request.json() raises json.JSONDecodeError
BodyRejected(body) == body.kind = "malformed"

\* webhook: `conversation = body if isinstance(body, dict) else {}`
conversation(body) == IF body.kind = "dict" THEN body.conv ELSE EmptyConv

-----------------------------------------------------------------------------
(* Initial state *)

\* the repository as the app finds it: empty, or holding the three documents
\* an earlier run wrote for EarlierConv on the same date
EarlierStore ==
    [p \in AllPaths |->
        IF p = diary(Date1)
        THEN [present |-> TRUE, sha |-> 1,
              content |-> diary_header(Date1) \o diary_entry(EarlierConv)]
        ELSE IF p = transcript(Date1)
        THEN [present |-> TRUE, sha |-> 1,
              content |-> transcript_header(Date1) \o transcript_entry(EarlierConv)]
        ELSE IF p = raw_data(Date1, IdA)
        THEN [present |-> TRUE, sha |-> 1, content |-> json_dumps(EarlierConv)]
        ELSE None]

EmptyStore == [p \in AllPaths |-> None]

Init ==
    /\ config \in Configs
    /\ store \in {EmptyStore, EarlierStore}
    /\ pc = [h \in Handlers |-> "idle"]
    /\ req = [h \in Handlers |-> NoReq]
    /\ existing = [h \in Handlers |-> None]
    /\ ret = [h \in Handlers |-> NoRet]
    /\ calls = [h \in Handlers |-> <<>>]
    /\ resp = [h \in Handlers |-> NoResp]
    /\ nreq = 0
    /\ derived = {}

-----------------------------------------------------------------------------
(* Actions *)

\* the handling moves to its next await point; on reaching the end of
\* save_conversation the webhook builds its summary
\* requests are served by interchangeable tasks: a new one takes the first free
FirstIdle(h) == pc[h] = "idle" /\ \A g \in Handlers : g < h => pc[g] # "idle"

Goto(h, next) ==
    /\ pc' = [pc EXCEPT ![h] = next]
    /\ resp' = [resp EXCEPT ![h] = IF next = "done" THEN Summary(req[h]) ELSE @]

\* an exception or HTTPException ends the handling with an error response
Fail(h, status, detail) ==
    /\ pc' = [pc EXCEPT ![h] = "done"]
    /\ resp' = [resp EXCEPT ![h] = ErrorResp(status, detail)]

\* POST /webhook up to the first remote call: require_config, request.json(),
\* the date, get_diary_service, and save_conversation up to save_or_append
WebhookStart(h, body, date) ==
    /\ FirstIdle(h)
    /\ nreq < MaxRequests
    /\ nreq' = nreq + 1
    /\ req' = [req EXCEPT ![h] = [endpoint |-> "webhook", body |-> body.kind,
                                   conv |-> conversation(body), date |-> date]]
    /\ IF ~is_configured(config) THEN Fail(h, 500, "not configured")
       ELSE IF BodyRejected(body) THEN Fail(h, 400, "invalid json")
       ELSE Goto(h, "diary_fetch")
    /\ UNCHANGED <<config, store, existing, ret, calls, derived>>

\* the answers a fetch of `path` can get: the store's, or a fault
FetchReplies(path) ==
    {StoreGetReply(store[path])} \cup FetchFaults

\* save_or_append: `existing = await self.github.get_file(path)`
SaveOrAppendFetch(h) ==
    /\ pc[h] \in {"diary_fetch", "transcript_fetch"}
    /\ LET kind == DocKind(pc[h])
           path == DocPath(kind, req[h])
       IN  \E reply \in FetchReplies(path) :
             /\ pc' = [pc EXCEPT ![h] = IF kind = "diary" THEN "diary_put"
                                        ELSE "transcript_put"]
             /\ existing' = [existing EXCEPT ![h] = get_file(reply)]
             /\ calls' = [calls EXCEPT ![h] = Append(@, LogGet(path, reply, store[path]))]
    /\ UNCHANGED <<config, store, req, ret, resp, nreq, derived>>

\* put_file: the store answers (whatever the status, response.json() is
\* returned), or client.put raises httpx.HTTPError and put_file re-raises
PutOutcomes == {"answered", "transport_error"}

\* save_or_append: the put_file call of either branch, and the return
SaveOrAppendPut(h) ==
    /\ pc[h] \in {"diary_put", "transcript_put"}
    /\ LET kind == DocKind(pc[h])
           path == DocPath(kind, req[h])
           ex == existing[h]
           data == put_data(path,
                            new_content(ex, DocEntry(kind, req[h]), DocHeader(kind, req[h])),
                            commit_message(kind, ex), put_sha(ex))
       IN  \E outcome \in PutOutcomes :
             IF outcome = "answered"
             THEN /\ Goto(h, AfterPut(kind, req[h].conv))
                  /\ ret' = [ret EXCEPT ![h][kind] = save_or_append_result(ex)]
                  /\ store' = [store EXCEPT ![path] = StoreWrite(@, data.content, data.sha)]
                  /\ calls' = [calls EXCEPT ![h] = Append(@, LogPut(data, StoreStatus(store[path], data.sha),
                                      StoreWrite(store[path], data.content, data.sha) # store[path]))]
             ELSE /\ Fail(h, 500, "internal server error")
                  /\ ret' = [ret EXCEPT ![h][kind] = "raised"]
                  /\ calls' = [calls EXCEPT ![h] = Append(@, LogPut(data, 0, FALSE))]
                  /\ UNCHANGED store
    /\ existing' = [existing EXCEPT ![h] = None]
    /\ UNCHANGED <<config, req, nreq, derived>>

\* save_conversation: the put_file of the raw record, without sha
RawPut(h) ==
    /\ pc[h] = "raw_put"
    /\ LET path == PathsOf[req[h].date].raw[req[h].conv.id]
           data == put_data(path, json_dumps(req[h].conv), "raw", NoSha)
       IN  \E outcome \in PutOutcomes :
             IF outcome = "answered"
             THEN /\ Goto(h, "done")
                  /\ store' = [store EXCEPT ![path] = StoreWrite(@, data.content, data.sha)]
                  /\ calls' = [calls EXCEPT ![h] = Append(@, LogPut(data, StoreStatus(store[path], data.sha),
                                      StoreWrite(store[path], data.content, data.sha) # store[path]))]
             ELSE /\ Fail(h, 500, "internal server error")
                  /\ calls' = [calls EXCEPT ![h] = Append(@, LogPut(data, 0, FALSE))]
                  /\ UNCHANGED store
    /\ UNCHANGED <<config, req, existing, ret, nreq, derived>>

\* GET /diary/{date} up to the fetch: require_config, PathGenerator.diary
GetDiaryStart(h, date) ==
    /\ FirstIdle(h)
    /\ nreq < MaxRequests
    /\ nreq' = nreq + 1
    /\ req' = [req EXCEPT ![h] = [NoReq EXCEPT !.endpoint = "get_diary", !.date = date]]
    /\ IF ~is_configured(config) THEN Fail(h, 500, "not configured")
       ELSE IF ~DateUnpacks(date) THEN Fail(h, 500, "internal server error")
       ELSE /\ pc' = [pc EXCEPT ![h] = "get_diary_fetch"]
            /\ UNCHANGED resp
    /\ UNCHANGED <<config, store, existing, ret, calls, derived>>

\* get_diary: `existing = await github.get_file(file_path)` and the answer
GetDiaryFetch(h) ==
    /\ pc[h] = "get_diary_fetch"
    /\ LET path == PathsOf[req[h].date].diary
       IN  \E reply \in FetchReplies(path) :
             /\ pc' = [pc EXCEPT ![h] = "done"]
             /\ calls' = [calls EXCEPT ![h] = Append(@, LogGet(path, reply, store[path]))]
             /\ resp' = [resp EXCEPT ![h] =
                    IF get_file(reply).present
                    THEN [NoResp EXCEPT !.status = 200, !.file_path = path,
                                        !.content = get_file(reply).content]
                    ELSE ErrorResp(404, "no diary yet")]
    /\ UNCHANGED <<config, store, req, existing, ret, nreq, derived>>

\* the response is sent; the handling's locals and its service are dropped
Finish(h) ==
    /\ pc[h] = "done"
    /\ pc' = [pc EXCEPT ![h] = "idle"]
    /\ req' = [req EXCEPT ![h] = NoReq]
    /\ ret' = [ret EXCEPT ![h] = NoRet]
    /\ calls' = [calls EXCEPT ![h] = <<>>]
    /\ resp' = [resp EXCEPT ![h] = NoResp]
    /\ UNCHANGED <<config, store, existing, nreq, derived>>

Next ==
    \/ \E h \in Handlers, body \in Bodies, date \in Dates : WebhookStart(h, body, date)
    \/ \E h \in Handlers : SaveOrAppendFetch(h)
    \/ \E h \in Handlers : SaveOrAppendPut(h)
    \/ \E h \in Handlers : RawPut(h)
    \/ \E h \in Handlers, date \in Dates \cup {BadDate} : GetDiaryStart(h, date)
    \/ \E h \in Handlers : GetDiaryFetch(h)
    \/ \E h \in Handlers : Finish(h)

Spec == Init /\ [][Next]_vars

\* a remote call of a handling: each awaited call ends (the client's timeout
\* is 30 s) and the coroutine is resumed
RemoteCall(h) ==
    SaveOrAppendFetch(h) \/ SaveOrAppendPut(h) \/ RawPut(h) \/ GetDiaryFetch(h)

FairSpec == Spec /\ \A h \in Handlers : WF_vars(RemoteCall(h))

-----------------------------------------------------------------------------
(* The path specification: PathGenerator applied to dates and ids *)

PathDates == {Date1, Date2, Date3}
PathIds == {IdA, IdB, IdC}

Derive(kind, date, id, path) ==
    /\ Cardinality(derived) < MaxDerived
    /\ derived' = derived \cup {[kind |-> kind, date |-> date, id |-> id, path |-> path]}
    /\ UNCHANGED <<config, store, pc, req, existing, ret, calls, resp, nreq>>

DeriveDiary(date) == Derive("diary", date, NoId, diary(date))

DeriveTranscript(date) == Derive("transcript", date, NoId, transcript(date))

DeriveRaw(date, id) == Derive("raw", date, id, raw_data(date, id))

NextPaths ==
    \/ \E date \in PathDates : DeriveDiary(date)
    \/ \E date \in PathDates : DeriveTranscript(date)
    \/ \E date \in PathDates, id \in PathIds : DeriveRaw(date, id)

SpecPaths == Init /\ [][NextPaths]_vars


-----------------------------------------------------------------------------
(* Reading a handling's log *)

Idx(h) == 1..Len(calls[h])

\* the put_file calls of save_or_append in h's log
SavePuts(h) == {i \in Idx(h) : calls[h][i].op = "put" /\ calls[h][i].message # "raw"}

\* the document a logged put is about, read from its commit message
KindOf(h, i) ==
    IF calls[h][i].message \in {"diary_new", "diary_update"} THEN "diary"
    ELSE IF calls[h][i].message \in {"transcript_new", "transcript_update"}
         THEN "transcript"
         ELSE "raw"

EntryOf(h, i) ==
    IF KindOf(h, i) = "diary" THEN diary_entry(req[h].conv)
    ELSE transcript_entry(req[h].conv)

HeaderOf(h, i) ==
    IF KindOf(h, i) = "diary" THEN diary_header(req[h].date)
    ELSE transcript_header(req[h].date)

\* content is some old content, then "\n", then entry
IsAppendOf(content, entry) ==
    /\ Len(content) > Len(Newline \o entry)
    /\ SubSeq(content, Len(content) - Len(Newline \o entry) + 1, Len(content))
           = Newline \o entry

Configured == config.github_token # "" /\ config.github_repo # ""

\* h handles a webhook whose record was accepted (configured, body parsed)
Accepted(h) ==
    /\ req[h].endpoint = "webhook"
    /\ req[h].body # "malformed"
    /\ Configured

\* op and path of each logged call, in order
Shape(log) == [i \in 1..Len(log) |-> <<log[i].op, log[i].path>>]

\* the calls a handling of record r is to issue: diary, transcript, raw
ExpectedShape(r) ==
    <<(<<"get", diary(r.date)>>), (<<"put", diary(r.date)>>)>>
    \o (IF r.conv.segs > 0
        THEN <<(<<"get", transcript(r.date)>>), (<<"put", transcript(r.date)>>)>>
        ELSE <<>>)
    \o (IF r.conv.id # NoId THEN <<(<<"put", raw_data(r.date, r.conv.id)>>)>> ELSE <<>>)

-----------------------------------------------------------------------------
(* C1 *)

\* C1 as stated: every put_file of save_or_append follows a fetch of the same
\* path; if the store held no document there at the fetch, header + content
\* is submitted without a token and "created" is returned; if it held one
\* with content old, old + "\n" + content is submitted with the token just
\* fetched and "updated" is returned (when the write call returns).
C1_AsStated ==
    \A h \in Handlers : \A i \in SavePuts(h) :
        /\ i > 1
        /\ calls[h][i - 1].op = "get"
        /\ calls[h][i - 1].path = calls[h][i].path
        /\ LET g == calls[h][i - 1]
               p == calls[h][i]
           IN  IF g.status = 200 \/ g.missed
               THEN /\ IsAppendOf(p.content, EntryOf(h, i))
                    /\ g.status = 200 => p.content = g.content \o Newline \o EntryOf(h, i)
                    /\ p.sha # NoSha
                    /\ g.status = 200 => p.sha = g.sha
                    /\ p.status # 0 => ret[h][KindOf(h, i)] = "updated"
               ELSE /\ p.content = HeaderOf(h, i) \o EntryOf(h, i)
                    /\ p.sha = NoSha
                    /\ p.status # 0 => ret[h][KindOf(h, i)] = "created"

\* C1 (amended): save_or_append branches on what get_file returned. When it
\* returned None (the path is absent, or the fetch failed) exactly
\* header + content is submitted, without a token, and "created" is returned
\* if the write call returns; when it returned a document (old, sha) exactly
\* old + "\n" + content is submitted with that sha and "updated" is returned
\* if the write call returns, whatever the store answered; when the write
\* call raises, the exception propagates and nothing is returned. A fetch of
\* an absent path always returns None.
C1_SaveOrAppend ==
    \A h \in Handlers : \A i \in SavePuts(h) :
        /\ i > 1
        /\ calls[h][i - 1].op = "get"
        /\ calls[h][i - 1].path = calls[h][i].path
        /\ LET g == calls[h][i - 1]
               p == calls[h][i]
           IN  IF g.status = 200
               THEN /\ p.content = g.content \o Newline \o EntryOf(h, i)
                    /\ p.sha = g.sha
                    /\ p.sha # NoSha
                    /\ p.message \in {"diary_update", "transcript_update"}
                    /\ ret[h][KindOf(h, i)] = IF p.status = 0 THEN "raised" ELSE "updated"
               ELSE /\ p.content = HeaderOf(h, i) \o EntryOf(h, i)
                    /\ p.sha = NoSha
                    /\ p.message \in {"diary_new", "transcript_new"}
                    /\ ret[h][KindOf(h, i)] = IF p.status = 0 THEN "raised" ELSE "created"

\* one handling that appended to the diary and created the transcript
C1_Witness ==
    \E h \in Handlers :
        /\ ret[h].diary = "updated"
        /\ ret[h].transcript = "created"
        /\ \E i \in SavePuts(h) : calls[h][i].status = 200 /\ Len(calls[h][i].content) = 4
        /\ \E i \in SavePuts(h) : calls[h][i].status = 201

-----------------------------------------------------------------------------
(* C2 *)

\* C2: a handling whose save_or_append write the store rejected with
\* RevisionConflict (409) surfaces the failure: save_or_append does not return
\* "updated" for that document and the handling does not answer with the
\* success summary.
C2_ConflictSurfaced ==
    \A h \in Handlers : \A i \in SavePuts(h) :
        calls[h][i].status = 409 =>
            /\ ret[h][KindOf(h, i)] # "updated"
            /\ ~(pc[h] = "done" /\ resp[h].status = 200)

-----------------------------------------------------------------------------
(* C3 *)

DiaryPutFailed(h) ==
    \E i \in SavePuts(h) :
        KindOf(h, i) = "diary" /\ calls[h][i].status \notin {200, 201}

\* C3: once a handling of a record with a transcript segment and an id has
\* ended, if its diary write failed (rejected, or the call raised) the
\* transcript write and the raw-record write were still attempted.
C3_OtherWritesAttempted ==
    \A h \in Handlers :
        (/\ pc[h] = "done"
         /\ Accepted(h)
         /\ req[h].conv.segs > 0
         /\ req[h].conv.id # NoId
         /\ DiaryPutFailed(h))
        => /\ \E j \in Idx(h) : calls[h][j].op = "put" /\ KindOf(h, j) = "transcript"
           /\ \E k \in Idx(h) : calls[h][k].op = "put" /\ KindOf(h, k) = "raw"

-----------------------------------------------------------------------------
(* C4 *)

\* C4: the calls of a handling of an accepted record are issued in the order
\* diary get, diary put, then transcript get and put iff the record has a
\* transcript segment, then the raw put iff it has an id; without a segment
\* the response names no transcript path and has_transcript is false.
C4_CallOrder ==
    \A h \in Handlers :
        Accepted(h) =>
            /\ IsPrefix(Shape(calls[h]), ExpectedShape(req[h]))
            /\ pc[h] = "done" =>
                 /\ Shape(calls[h]) = ExpectedShape(req[h])
                 /\ req[h].conv.segs = 0 =>
                        /\ resp[h].transcript_path = NoPath
                        /\ ~resp[h].has_transcript

-----------------------------------------------------------------------------
(* C5 *)

\* C5: with the token or the repository not configured, every request is
\* answered 500 and no fetch and no write is ever sent: the logs stay empty,
\* no handling reaches a remote call, and the store stays empty.
C5_NoCallsUnconfigured ==
    (config.github_token = "" \/ config.github_repo = "") =>
        /\ \A h \in Handlers :
             /\ calls[h] = <<>>
             /\ pc[h] \in {"idle", "done"}
             /\ pc[h] = "done" => resp[h].status = 500
        /\ store \in {EmptyStore, EarlierStore}

\* only the repository is missing; a webhook and a diary read were both refused
C5_Witness ==
    /\ config.github_token # ""
    /\ config.github_repo = ""
    /\ \E h, g \in Handlers :
         /\ pc[h] = "done" /\ req[h].endpoint = "webhook" /\ req[h].body = "dict"
         /\ pc[g] = "done" /\ req[g].endpoint = "get_diary"

-----------------------------------------------------------------------------
(* C6 *)

-----------------------------------------------------------------------------
(* C7 *)

\* C7: every write that carries a revision token comes right after a fetch of
\* the same path that returned that token; a handling sends no two such
\* writes to one path; and outside the fetch-to-write window of a
\* save_or_append call a handling holds no fetched document.
C7_FreshRevision ==
    \A h \in Handlers :
        /\ \A i \in Idx(h) :
             (calls[h][i].op = "put" /\ calls[h][i].sha # NoSha) =>
                 /\ i > 1
                 /\ calls[h][i - 1].op = "get"
                 /\ calls[h][i - 1].path = calls[h][i].path
                 /\ calls[h][i - 1].status = 200
                 /\ calls[h][i - 1].sha = calls[h][i].sha
        /\ \A i, j \in Idx(h) :
             (/\ i < j
              /\ calls[h][i].op = "put" /\ calls[h][i].sha # NoSha
              /\ calls[h][j].op = "put" /\ calls[h][j].sha # NoSha)
             => calls[h][i].path # calls[h][j].path
        /\ pc[h] \notin {"diary_put", "transcript_put"} => existing[h] = None

\* a handling sent tokens for the diary and for the transcript
C7_Witness ==
    \E h \in Handlers : \E i, j \in SavePuts(h) :
        /\ i < j
        /\ calls[h][i].sha # NoSha
        /\ calls[h][j].sha # NoSha

-----------------------------------------------------------------------------
(* C8 *)

\* C8: after a handling of a record with an id has answered with its summary,
\* the raw-record document for (date, id) holds exactly the serialization of that
\* record.
C8_RawHoldsRecord ==
    \A h \in Handlers :
        (/\ pc[h] = "done"
         /\ Accepted(h)
         /\ resp[h].status = 200
         /\ req[h].conv.id # NoId)
        => store[raw_data(req[h].date, req[h].conv.id)].content = json_dumps(req[h].conv)

-----------------------------------------------------------------------------
(* C9 *)

\* C9: the paths PathGenerator derives are a function of (kind, date, id) and
\* jointly injective: two derivations give the same path exactly when they
\* are of the same kind, date and id.
C9_PathsInjective ==
    \A a, b \in derived :
        (a.path = b.path) <=> (a.kind = b.kind /\ a.date = b.date /\ a.id = b.id)

\* a diary, a transcript and a raw record of one date have been derived
C9_Witness ==
    \E a, b, c \in derived :
        /\ a.kind = "diary" /\ b.kind = "transcript" /\ c.kind = "raw"
        /\ a.date = b.date /\ b.date = c.date
        /\ c.id = IdC

-----------------------------------------------------------------------------
(* C10 *)

\* the writes that follow a failed fetch of a document the store holds, and
\* that the store answered
MissedPuts(h) ==
    {i \in SavePuts(h) : i > 1 /\ calls[h][i - 1].missed /\ calls[h][i].status # 0}

\* C10 as stated: after a failed fetch of an existing document, save_or_append
\* submits header + content without a token and the write replaces the
\* document (the store accepts it).
C10_AsStated ==
    \A h \in Handlers : \A i \in MissedPuts(h) :
        /\ calls[h][i].content = HeaderOf(h, i) \o EntryOf(h, i)
        /\ calls[h][i].sha = NoSha
        /\ calls[h][i].status \in {200, 201}
        /\ calls[h][i].stored

\* C10 (amended): after a failed fetch of an existing document, get_file
\* having returned None, save_or_append submits header + content without a
\* token and returns "created"; the store refuses the write (the path is
\* occupied and no sha was supplied), so the document stays in the store,
\* and the new entry is not stored.
C10_MissedFetch ==
    \A h \in Handlers : \A i \in MissedPuts(h) :
        /\ calls[h][i - 1].status = 0
        /\ calls[h][i].content = HeaderOf(h, i) \o EntryOf(h, i)
        /\ calls[h][i].sha = NoSha
        /\ calls[h][i].status = 422
        /\ ~calls[h][i].stored
        /\ ret[h][KindOf(h, i)] = "created"
        /\ store[calls[h][i].path].present

C10_Witness ==
    \E h \in Handlers : \E i \in MissedPuts(h) :
        /\ KindOf(h, i) = "diary"
        /\ pc[h] = "done"
        /\ resp[h].status = 200

-----------------------------------------------------------------------------
(* C11 *)

\* the calls of h's log with this op
CallsOf(h, op) == {i \in Idx(h) : calls[h][i].op = op}

\* the writes in h's log that the store refused
RejectedPuts(h) ==
    {i \in Idx(h) : calls[h][i].op = "put" /\ calls[h][i].status \in {409, 422}}

\* in one webhook handling no path is fetched twice or written twice, at
\* most two paths are fetched and three written, so at most five calls are
\* issued, and nothing is sent to the path of a refused write after the
\* refusal
AtMostOnce ==
    \A h \in Handlers : req[h].endpoint = "webhook" =>
        /\ Len(calls[h]) <= 5
        /\ Cardinality(CallsOf(h, "get")) <= 2
        /\ Cardinality(CallsOf(h, "put")) <= 3
        /\ \A i, j \in Idx(h) :
              calls[h][i].op = calls[h][j].op /\ calls[h][i].path = calls[h][j].path
                  => i = j
        /\ \A i \in RejectedPuts(h) : \A j \in Idx(h) :
              j > i => calls[h][j].path # calls[h][i].path

\* h is between handlings or has its response: no remote call is pending.
\* A handling leaves its calls only by reaching its response, so a handler
\* that is here again and again finishes every handling it starts.
InNoCall(h) == pc[h] \in {"idle", "done"}

\* C11: a write rejected by the store is never retried: in one webhook
\* handling each of the diary and transcript documents is fetched at most
\* once and written at most once, the raw record is written at most once, so
\* a handling issues at most five remote calls, and no handling stays in its
\* remote calls for ever: it reaches its response whatever the store answers.
C11_NoRetry ==
    /\ []AtMostOnce
    /\ \A h \in Handlers : []<>InNoCall(h)

\* a handling whose diary write was refused went on to issue five calls in
\* all and has its response
C11_Witness ==
    \E h \in Handlers : \E i \in RejectedPuts(h) :
        /\ KindOf(h, i) = "diary"
        /\ Len(calls[h]) = 5
        /\ pc[h] = "done"

-----------------------------------------------------------------------------
(* C12 *)

\* the paths of the diary and transcript documents
DocPaths == {PathsOf[d].diary : d \in Dates} \cup {PathsOf[d].transcript : d \in Dates}

IsProperPrefix(a, b) == Len(a) < Len(b) /\ IsPrefix(a, b)

\* the step changes the document at p only by creating it or by extending
\* its content
AppendOnlyStep(p) ==
    store'[p] # store[p] =>
        /\ store'[p].present
        /\ store[p].present => IsProperPrefix(store[p].content, store'[p].content)

\* C12: diary and transcript documents are append-only under every
\* interleaving of webhook handlings: every write the store accepts for such
\* a path either creates the document or leaves the previous content as a
\* proper prefix of the new content, so an entry whose write was accepted is
\* never removed or altered later. (Stated for every step, whether or not the
\* fetch before the write was answered truthfully: that is the claim and more.)
C12_AppendOnly == [][\A p \in DocPaths : AppendOnlyStep(p)]_vars

\* the accepted appends in h's log that followed a truthful fetch
AcceptedAppends(h) ==
    {i \in SavePuts(h) : /\ calls[h][i].status = 200
                         /\ calls[h][i].stored
                         /\ calls[h][i - 1].status = 200
                         /\ ~calls[h][i - 1].missed}

\* two handlings in flight have each had an append to the same diary accepted,
\* and the document holds the later one's content, which extends the earlier
\* one's
C12_Witness ==
    \E h, g \in Handlers : \E i \in AcceptedAppends(h), j \in AcceptedAppends(g) :
        /\ h # g
        /\ KindOf(h, i) = "diary"
        /\ calls[g][j].path = calls[h][i].path
        /\ IsProperPrefix(calls[h][i].content, calls[g][j].content)
        /\ store[calls[g][j].path].content = calls[g][j].content

=============================================================================
